---- MODULE Spec2Model ----
(***************************************************************************)
(* Model of src/src/app.ts: the app_mention handler, processAudioFile,     *)
(* splitAudioFile, transcribeAudio and cleanupFiles, running over a shared *)
(* /tmp directory.  Every `await` of the source is one step of the model;  *)
(* the code that runs synchronously after an await belongs to that step.   *)
(* The outcome of every external call (HTTP download, stat, mkdir,         *)
(* ffprobe, ffmpeg, readdir, Whisper, chat.postMessage, access, unlink,    *)
(* rm) is chosen by the environment.                                       *)
(***************************************************************************)
EXTENDS Integers, Sequences, FiniteSets, TLC

\* ------------------------------------------------------------------------
\* Bounds of the model
\* ------------------------------------------------------------------------
\* longest event.files list
MaxFiles == 2
\* largest number of segment files one ffmpeg run writes
MaxSegments == 2
\* number of audio files (processAudioFile runs) all events together carry
MaxRuns == 2

\* the app_mention events; their handlers may be active at the same time
Events == {"E1", "E2"}

\* ------------------------------------------------------------------------
\* Values
\* ------------------------------------------------------------------------
Absent == -1
\* a directory that does not exist, and one that holds the segment files
\* with the given indices
NoDir == [exists |-> FALSE, files |-> {}]
DirOf(files) == [exists |-> TRUE, files |-> files]
\* the file-name part of a path that names no segment
NoName == [prefix |-> "", digits |-> <<>>]
\* let outputDir: string | null = null
NULL == [id |-> "", suffix |-> "", name |-> NoName]
NoError == "none"

\* stats.size values: the boundary of the size test and its successor
Sizes == {25 * (1024 * 1024), 25 * (1024 * 1024) + 1}

\* file descriptors a mention may carry: two audio files, one image
SlackFiles ==
  { [id |-> "F1", filetype |-> "mp3", mimetype |-> <<"audio", "mpeg">>],
    [id |-> "F2", filetype |-> "mp3", mimetype |-> <<"audio", "mpeg">>],
    [id |-> "F3", filetype |-> "png", mimetype |-> <<"image", "png">>] }

\* `/tmp/${file.id}.${file.filetype}`
TempFilePath(file) == [id |-> file.id, suffix |-> file.filetype, name |-> NoName]

\* `/tmp/${file.id}_segments`
OutputDir(file) == [id |-> file.id, suffix |-> "_segments", name |-> NoName]

\* the separator appended after a segment's text, line 132
Space == [kind |-> "space", path |-> NULL]

\* transcription.text, line 103: the text the service answers for the audio
\* at filePath
Text(filePath) == [kind |-> "text", path |-> filePath]

\* path.join(outputDir, segment)
PathJoin(dir, segment) == [dir EXCEPT !.name = segment]

TempFilePaths == {TempFilePath(f) : f \in SlackFiles}
OutputDirs == {OutputDir(f) : f \in SlackFiles}

\* file.mimetype.startsWith('audio/')
IsAudio(file) == file.mimetype[1] = "audio"

\* event.files.filter(...)
RECURSIVE FilterAudio(_)
FilterAudio(files) ==
  IF files = <<>> THEN <<>>
  ELSE IF IsAudio(Head(files))
       THEN <<Head(files)>> \o FilterAudio(Tail(files))
       ELSE FilterAudio(Tail(files))

\* the size test with the boundary on the wrong side
ExceedsLimitInclusive(size) == size >= 25 * (1024 * 1024)

\* stats.size / (1024 * 1024) > 25; the division by 2^20 is exact in a
\* double for every size below 2^53, so the test is the integer one
ExceedsLimit(size) == size > 25 * (1024 * 1024)

\* ------------------------------------------------------------------------
\* Segment file names: 'segment_%03d.mp3'
\* ------------------------------------------------------------------------
RECURSIVE Digits(_)
Digits(n) == IF n < 10 THEN <<n>> ELSE Digits(n \div 10) \o <<n % 10>>

\* %03d: decimal, zero-padded to at least three digits
Format03d(n) ==
  LET d == Digits(n)
  IN  IF Len(d) >= 3 THEN d
      ELSE [i \in 1..(3 - Len(d)) |-> 0] \o d

SegmentName(n) == [prefix |-> "segment_", digits |-> Format03d(n)]

\* file.startsWith('segment_')
IsSegment(name) == name.prefix = "segment_"

RECURSIVE FilterSegments(_)
FilterSegments(files) ==
  IF files = <<>> THEN <<>>
  ELSE IF IsSegment(Head(files))
       THEN <<Head(files)>> \o FilterSegments(Tail(files))
       ELSE FilterSegments(Tail(files))

\* order of 'segment_<d1>.mp3' and 'segment_<d2>.mp3' as UTF-16 strings:
\* the first differing digit decides; when one digit string is a prefix of
\* the other, '.' (0x2E) is compared with a digit (0x30..0x39) and is smaller
RECURSIVE DigitsLess(_, _)
DigitsLess(d1, d2) ==
  IF d1 = <<>> THEN d2 # <<>>
  ELSE IF d2 = <<>> THEN FALSE
  ELSE IF Head(d1) # Head(d2) THEN Head(d1) < Head(d2)
  ELSE DigitsLess(Tail(d1), Tail(d2))

NameLess(n1, n2) == DigitsLess(n1.digits, n2.digits)

RECURSIVE InsertSorted(_, _)
InsertSorted(x, s) ==
  IF s = <<>> THEN <<x>>
  ELSE IF NameLess(x, Head(s)) THEN <<x>> \o s
  ELSE <<Head(s)>> \o InsertSorted(x, Tail(s))

\* the listing used in the order fsp.readdir gave it
Unsorted(s) == s

\* Array.prototype.sort() without comparator on the filtered names
RECURSIVE SortNames(_)
SortNames(s) ==
  IF s = <<>> THEN <<>> ELSE InsertSorted(Head(s), SortNames(Tail(s)))

\* every order in which fsp.readdir may list a set of names
Listings(S) ==
  {s \in [1..Cardinality(S) -> S] : \A i, j \in 1..Cardinality(S) : i # j => s[i] # s[j]}

\* ------------------------------------------------------------------------
\* State
\* ------------------------------------------------------------------------
VARIABLES
  tmpFiles,   \* /tmp: temp file path -> Absent or the size of the file
  tmpDirs,    \* /tmp: temp directory path -> NoDir or the segment indices in it
  proc,       \* per event: the handler and its current processAudioFile run
  slack,      \* per event: the messages posted to the channel, in order
  runs        \* number of audio files the handlers have taken on so far

vars == <<tmpFiles, tmpDirs, proc, slack, runs>>

\* the handler before its event arrived, and the locals of a fresh run
IdleProc ==
  [ pc |-> "idle",
    audioFiles |-> <<>>,        \* line 179
    index |-> 0,                \* position of the for loop of line 184
    outputDir |-> NULL,         \* line 111
    size |-> Absent,            \* stats.size, line 116
    segments |-> <<>>,          \* line 126
    next |-> 0,                 \* position of the for loop of line 129
    transcriptionText |-> <<>>, \* line 119
    error |-> NoError,          \* the error caught at line 147
    \* history of the handler
    runFailed |-> FALSE,        \* line 185 rejected
    noticeRejected |-> FALSE,   \* the say of line 195 rejected
    \* history of the run
    cleanupCalls |-> 0,         \* calls of cleanupFiles
    mkdirCalls |-> 0,           \* calls of fsp.mkdir
    splitCalls |-> 0,           \* calls of splitAudioFile
    calls |-> <<>>,             \* calls of transcribeAudio that settled: path, outcome
    submitted |-> 0,            \* calls of transcribeAudio made
    downloaded |-> FALSE,       \* downloadFile resolved
    splitLog |-> <<>>,          \* steps of splitAudioFile, in the order taken
    own |-> {},                 \* segment files written by the ffmpeg of this run
    posted |-> <<>>,            \* transcripts passed to chat.postMessage with success
    splitResult |-> "pending",  \* how the promise of splitAudioFile settled
    rejection |-> NoError,      \* the error processAudioFile rejected with
    cleanupError |-> NoError,   \* the error logged at line 165
    dirChecked |-> FALSE,       \* fsp.access(outputDir) was evaluated
    endFile |-> FALSE,          \* the temp file existed when the run settled
    endDir |-> FALSE ]          \* the temp directory existed when the run settled

Init ==
  /\ tmpFiles = [p \in TempFilePaths |-> Absent]
  /\ tmpDirs = [d \in OutputDirs |-> NoDir]
  /\ proc = [e \in Events |-> IdleProc]
  /\ slack = [e \in Events |-> <<>>]
  /\ runs = 0

File(e) == proc[e].audioFiles[proc[e].index]
Path(e) == TempFilePath(File(e))
Dir(e) == OutputDir(File(e))

Running(e) ==
  proc[e].pc \in {"download", "stat", "mkdir", "ffprobe", "ffmpeg", "readdir",
                  "segment", "direct", "post", "access_file", "unlink",
                  "access_dir", "rm"}
Settled(e) == proc[e].pc \in {"returned", "thrown"}

\* ------------------------------------------------------------------------
\* processAudioFile: control flow shared by its steps
\* ------------------------------------------------------------------------
\* finally { await cleanupFiles(tempFilePath, outputDir) }, lines 150-152
Finally(p) == [p EXCEPT !.pc = "access_file", !.cleanupCalls = @ + 1]

\* a catch block that rethrows where no finally block follows
CatchWithoutFinally(p, err) ==
  [p EXCEPT !.error = err, !.rejection = err, !.pc = "thrown"]

\* a catch block inside the segment loop that logs the failure of a segment
\* and goes on with the next one
CatchSkipSegment(p, err) ==
  IF p.pc = "segment"
  THEN IF p.next < Len(p.segments)
       THEN [p EXCEPT !.next = @ + 1]
       ELSE [p EXCEPT !.pc = "post"]
  ELSE [p EXCEPT !.error = err, !.pc = "access_file", !.cleanupCalls = @ + 1]

\* a catch block that starts the run again from the download
CatchRetry(p, err) == [p EXCEPT !.pc = "download"]

\* catch (error) { console.error(...); throw error }, lines 147-149
Catch(p, err) == Finally([p EXCEPT !.error = err])

\* the promise of processAudioFile settles once cleanupFiles has returned:
\* it rejects with the error rethrown at line 149, or resolves
Settle(p, files, dirs, path, dir) ==
  [p EXCEPT !.pc = IF p.error = NoError THEN "returned" ELSE "thrown",
            !.rejection = p.error,
            !.endFile = files[path] # Absent,
            !.endDir = dirs[dir].exists]

\* cleanupFiles line 161: outputDir && await fsp.access(outputDir)
ToDirCheck(p, files, dirs, path, dir) ==
  IF p.outputDir # NULL THEN [p EXCEPT !.pc = "access_dir"]
  ELSE Settle(p, files, dirs, path, dir)

\* a teardown that lets its own error escape, replacing the error of the run
CleanupCatchRethrow(p, err, files, dirs, path, dir) ==
  [p EXCEPT !.cleanupError = err, !.pc = "thrown", !.rejection = err,
            !.endFile = files[path] # Absent, !.endDir = dirs[dir].exists]

\* catch (cleanupError) { console.error(...) }, lines 164-166
CleanupCatch(p, err, files, dirs, path, dir) ==
  Settle([p EXCEPT !.cleanupError = err], files, dirs, path, dir)

\* a concatenation that puts the new text in front of the transcript
AppendTextInFront(transcriptionText, text) == <<text, Space>> \o transcriptionText

\* transcriptionText += (await transcribeAudio(...)) + ' ', line 132
AppendText(transcriptionText, text) == transcriptionText \o <<text, Space>>

\* a loop that calls transcribeAudio for every segment at once and awaits
\* the calls together
NextSegmentAtOnce(p) ==
  IF p.next < Len(p.segments)
  THEN [p EXCEPT !.pc = "segment", !.next = @ + 1,
                 !.submitted = IF p.next = 0 THEN Len(p.segments) ELSE @]
  ELSE [p EXCEPT !.pc = "post"]

\* the for loop of line 129: the next segment, or on to line 138
NextSegment(p) ==
  IF p.next < Len(p.segments)
  THEN [p EXCEPT !.pc = "segment", !.next = @ + 1, !.submitted = @ + 1]
  ELSE [p EXCEPT !.pc = "post"]

\* lines 121-136: the branch on the measured size
Branch(p, size, dir) ==
  IF ExceedsLimit(size)
  THEN [p EXCEPT !.size = size, !.outputDir = dir, !.pc = "mkdir"]
  ELSE [p EXCEPT !.size = size, !.pc = "direct", !.submitted = @ + 1]

\* a fresh run of processAudioFile on audioFiles[index]
StartRun(p, index) ==
  [IdleProc EXCEPT !.pc = "download", !.audioFiles = p.audioFiles, !.index = index]

\* a message in the channel: say(...) or client.chat.postMessage(...)
Message(kind, id, text) == [kind |-> kind, id |-> id, text |-> text]

\* ------------------------------------------------------------------------
\* app.event('app_mention', ...), lines 174-197
\* ------------------------------------------------------------------------
\* the event arrives; the handler answers and starts on the first audio file
AppMention(e) ==
  /\ proc[e].pc = "idle"
  /\ \E n \in 0..MaxFiles : \E files \in [1..n -> SlackFiles] :
       LET audioFiles == FilterAudio(files) IN
       IF files = <<>>
       THEN /\ slack' = [slack EXCEPT ![e] = Append(@, Message("greeting", "", <<>>))]
            /\ proc' = [proc EXCEPT ![e].pc = "finished"]
            /\ UNCHANGED runs
       ELSE IF audioFiles = <<>>
       THEN /\ slack' = [slack EXCEPT ![e] = Append(@, Message("no audio", "", <<>>))]
            /\ proc' = [proc EXCEPT ![e].pc = "finished"]
            /\ UNCHANGED runs
       ELSE /\ runs + Len(audioFiles) <= MaxRuns
            /\ slack' = [slack EXCEPT ![e] = Append(@, Message("started", "", <<>>))]
            /\ proc' = [proc EXCEPT ![e] = StartRun([IdleProc EXCEPT !.audioFiles = audioFiles], 1)]
            /\ runs' = runs + Len(audioFiles)
  /\ UNCHANGED <<tmpFiles, tmpDirs>>

\* the first say of the handler (line 182, 188 or 191) rejected: control
\* passes to the catch of line 193 before any file is processed
SayRejected(e) ==
  /\ proc[e].pc = "idle"
  /\ proc' = [proc EXCEPT ![e].pc = "catch"]
  /\ UNCHANGED <<tmpFiles, tmpDirs, slack, runs>>

\* the handler has ended: the locals of its last run are gone
Finished(p, runFailed, noticeRejected) ==
  [IdleProc EXCEPT !.pc = "finished", !.audioFiles = p.audioFiles,
                   !.index = p.index, !.runFailed = runFailed,
                   !.noticeRejected = noticeRejected]

\* line 185 resolved: the for loop of line 184 goes on, or the handler ends
HandlerNext(e) ==
  /\ proc[e].pc = "returned"
  /\ proc' = [proc EXCEPT ![e] =
       IF proc[e].index < Len(proc[e].audioFiles)
       THEN StartRun(@, proc[e].index + 1)
       ELSE Finished(@, FALSE, FALSE)]
  /\ UNCHANGED <<tmpFiles, tmpDirs, slack, runs>>

\* a catch block that logs the error and tells the requester nothing
HandlerCatchSilent(e) ==
  /\ proc[e].pc \in {"thrown", "catch"}
  /\ proc' = [proc EXCEPT ![e] = Finished(@, proc[e].pc = "thrown", FALSE)]
  /\ UNCHANGED <<tmpFiles, tmpDirs, slack, runs>>

\* a catch block inside the for loop: it posts the notice and goes on with
\* the next audio file
HandlerCatchContinue(e) ==
  /\ proc[e].pc \in {"thrown", "catch"}
  /\ slack' = [slack EXCEPT ![e] = Append(@, Message("failure", "", <<>>))]
  /\ proc' = [proc EXCEPT ![e] =
       IF proc[e].pc = "thrown" /\ proc[e].index < Len(proc[e].audioFiles)
       THEN StartRun(@, proc[e].index + 1)
       ELSE Finished(@, proc[e].pc = "thrown", FALSE)]
  /\ UNCHANGED <<tmpFiles, tmpDirs, runs>>

\* line 185 rejected: catch of line 193, the failure notice of line 195
HandlerCatch(e) ==
  /\ proc[e].pc \in {"thrown", "catch"}
  /\ slack' = [slack EXCEPT ![e] = Append(@, Message("failure", "", <<>>))]
  /\ proc' = [proc EXCEPT ![e] = Finished(@, proc[e].pc = "thrown", FALSE)]
  /\ UNCHANGED <<tmpFiles, tmpDirs, runs>>

\* the say of line 195 rejected: the handler rejects, nothing is posted
HandlerCatchRejected(e) ==
  /\ proc[e].pc \in {"thrown", "catch"}
  /\ proc' = [proc EXCEPT ![e] = Finished(@, proc[e].pc = "thrown", TRUE)]
  /\ UNCHANGED <<tmpFiles, tmpDirs, slack, runs>>

\* ------------------------------------------------------------------------
\* processAudioFile, lines 107-153
\* ------------------------------------------------------------------------
\* line 114, downloadFile resolved: the file is created or overwritten
DownloadOk(e) ==
  /\ proc[e].pc = "download"
  /\ \E size \in Sizes : tmpFiles' = [tmpFiles EXCEPT ![Path(e)] = size]
  /\ proc' = [proc EXCEPT ![e].pc = "stat", ![e].downloaded = TRUE]
  /\ UNCHANGED <<tmpDirs, slack, runs>>

\* line 114, downloadFile rejected: the request failed (nothing written) or
\* the stream pipeline failed (a partial file is left)
DownloadFail(e) ==
  /\ proc[e].pc = "download"
  /\ \/ UNCHANGED tmpFiles
     \/ \E size \in Sizes : tmpFiles' = [tmpFiles EXCEPT ![Path(e)] = size]
  /\ proc' = [proc EXCEPT ![e] = Catch(@, "downloadFile")]
  /\ UNCHANGED <<tmpDirs, slack, runs>>

\* line 116, fsp.stat resolved, and the branch of line 121
StatOk(e) ==
  /\ proc[e].pc = "stat"
  /\ tmpFiles[Path(e)] # Absent
  /\ proc' = [proc EXCEPT ![e] = Branch(@, tmpFiles[Path(e)], Dir(e))]
  /\ UNCHANGED <<tmpFiles, tmpDirs, slack, runs>>

\* line 116, fsp.stat rejected (always so when the file is gone)
StatFail(e) ==
  /\ proc[e].pc = "stat"
  /\ proc' = [proc EXCEPT ![e] = Catch(@, "stat")]
  /\ UNCHANGED <<tmpFiles, tmpDirs, slack, runs>>

\* line 124, fsp.mkdir(outputDir, { recursive: true }) resolved: an existing
\* directory is kept as it is; line 126 calls splitAudioFile
MkdirOk(e) ==
  /\ proc[e].pc = "mkdir"
  /\ tmpDirs' = [tmpDirs EXCEPT ![Dir(e)] = DirOf(@.files)]
  /\ proc' = [proc EXCEPT ![e].pc = "ffprobe", ![e].mkdirCalls = @ + 1,
                          ![e].splitCalls = @ + 1, ![e].splitLog = <<"ffprobe">>]
  /\ UNCHANGED <<tmpFiles, slack, runs>>

\* line 124, fsp.mkdir rejected
MkdirFail(e) ==
  /\ proc[e].pc = "mkdir"
  /\ proc' = [proc EXCEPT ![e] = Catch([@ EXCEPT !.mkdirCalls = @ + 1], "mkdir")]
  /\ UNCHANGED <<tmpFiles, tmpDirs, slack, runs>>

\* ------------------------------------------------------------------------
\* splitAudioFile, lines 56-95
\* ------------------------------------------------------------------------
\* line 58, ffprobe called back without error: ffmpeg is started
FfprobeOk(e) ==
  /\ proc[e].pc = "ffprobe"
  /\ tmpFiles[Path(e)] # Absent
  /\ proc' = [proc EXCEPT ![e].pc = "ffmpeg", ![e].splitLog = Append(@, "ffmpeg")]
  /\ UNCHANGED <<tmpFiles, tmpDirs, slack, runs>>

\* the promise of splitAudioFile rejects: reject(new Error(...))
Reject(p) == [p EXCEPT !.splitResult = "rejected", !.splitLog = Append(@, "reject")]

\* a callback that rejects without returning, so that ffmpeg is run all the same
FfprobeFailNoReturn(e) ==
  /\ proc[e].pc = "ffprobe"
  /\ proc' = [proc EXCEPT ![e] =
                Catch([Reject(@) EXCEPT !.splitLog = Append(@, "ffmpeg")], "FFprobe failed")]
  /\ UNCHANGED <<tmpFiles, tmpDirs, slack, runs>>

\* lines 59-61, ffprobe called back with an error: reject, ffmpeg not started
FfprobeFail(e) ==
  /\ proc[e].pc = "ffprobe"
  /\ proc' = [proc EXCEPT ![e] = Catch(Reject(@), "FFprobe failed")]
  /\ UNCHANGED <<tmpFiles, tmpDirs, slack, runs>>

\* ffmpeg wrote segment_000 .. segment_(n-1) into outputDir
Written(dir, n) == DirOf(dir.files \cup 0..(n - 1))

\* line 79, 'end': ffmpeg has written its segments
FfmpegEnd(e) ==
  /\ proc[e].pc = "ffmpeg"
  /\ tmpFiles[Path(e)] # Absent
  /\ tmpDirs[Dir(e)].exists
  /\ \E n \in 0..MaxSegments :
       /\ tmpDirs' = [tmpDirs EXCEPT ![Dir(e)] = Written(@, n)]
       /\ proc' = [proc EXCEPT ![e].pc = "readdir", ![e].own = 0..(n - 1),
                               ![e].splitLog = Append(@, "readdir")]
  /\ UNCHANGED <<tmpFiles, slack, runs>>

\* lines 87-91, 'error': ffmpeg failed, having written some segments or none
FfmpegError(e) ==
  /\ proc[e].pc = "ffmpeg"
  /\ \/ /\ UNCHANGED tmpDirs
        /\ proc' = [proc EXCEPT ![e] = Catch(Reject(@), "FFmpeg failed")]
     \/ /\ tmpDirs[Dir(e)].exists
        /\ \E n \in 1..MaxSegments :
             /\ tmpDirs' = [tmpDirs EXCEPT ![Dir(e)] = Written(@, n)]
             /\ proc' = [proc EXCEPT ![e] =
                           Catch(Reject([@ EXCEPT !.own = 0..(n - 1)]), "FFmpeg failed")]
  /\ UNCHANGED <<tmpFiles, slack, runs>>

\* lines 81-82, fsp.readdir resolved with the names in some order:
\* resolve(files.filter(...).sort()); then the loop of line 129 begins
ReaddirOk(e) ==
  /\ proc[e].pc = "readdir"
  /\ tmpDirs[Dir(e)].exists
  /\ \E files \in Listings({SegmentName(i) : i \in tmpDirs[Dir(e)].files}) :
       proc' = [proc EXCEPT ![e] =
                  NextSegment([@ EXCEPT !.segments = SortNames(FilterSegments(files)),
                                        !.splitResult = "resolved",
                                        !.splitLog = Append(@, "resolve")])]
  /\ UNCHANGED <<tmpFiles, tmpDirs, slack, runs>>

\* lines 83-85, fsp.readdir rejected
ReaddirFail(e) ==
  /\ proc[e].pc = "readdir"
  /\ proc' = [proc EXCEPT ![e] = Catch(Reject(@), "Failed to read output directory")]
  /\ UNCHANGED <<tmpFiles, tmpDirs, slack, runs>>

\* ------------------------------------------------------------------------
\* transcribeAudio, lines 98-104, as called at lines 132 and 135
\* ------------------------------------------------------------------------
Segment(e) == proc[e].segments[proc[e].next]
SegmentPath(e) == PathJoin(proc[e].outputDir, Segment(e))
SegmentExists(e) ==
  /\ tmpDirs[Dir(e)].exists
  /\ \E i \in tmpDirs[Dir(e)].files : SegmentName(i) = Segment(e)

Call(path, ok) == [path |-> path, ok |-> ok]

\* line 132: the segment's text arrives and is appended
SegmentOk(e) ==
  /\ proc[e].pc = "segment"
  /\ SegmentExists(e)
  /\ proc' = [proc EXCEPT ![e] =
                NextSegment([@ EXCEPT
                  !.transcriptionText = AppendText(@, Text(SegmentPath(e))),
                  !.calls = Append(@, Call(SegmentPath(e), TRUE))])]
  /\ UNCHANGED <<tmpFiles, tmpDirs, slack, runs>>

\* line 132: the transcription of the segment is rejected
SegmentFail(e) ==
  /\ proc[e].pc = "segment"
  /\ proc' = [proc EXCEPT ![e] =
                Catch([@ EXCEPT !.calls = Append(@, Call(SegmentPath(e), FALSE))],
                      "transcribeAudio")]
  /\ UNCHANGED <<tmpFiles, tmpDirs, slack, runs>>

\* line 135: the text of the whole file arrives
DirectOk(e) ==
  /\ proc[e].pc = "direct"
  /\ tmpFiles[Path(e)] # Absent
  /\ proc' = [proc EXCEPT ![e].pc = "post",
                          ![e].transcriptionText = <<Text(Path(e))>>,
                          ![e].calls = Append(@, Call(Path(e), TRUE))]
  /\ UNCHANGED <<tmpFiles, tmpDirs, slack, runs>>

\* line 135: the transcription of the whole file is rejected
DirectFail(e) ==
  /\ proc[e].pc = "direct"
  /\ proc' = [proc EXCEPT ![e] =
                Catch([@ EXCEPT !.calls = Append(@, Call(Path(e), FALSE))],
                      "transcribeAudio")]
  /\ UNCHANGED <<tmpFiles, tmpDirs, slack, runs>>

\* lines 140-143, client.chat.postMessage resolved; finally
PostOk(e) ==
  /\ proc[e].pc = "post"
  /\ slack' = [slack EXCEPT ![e] =
                 Append(@, Message("result", File(e).id, proc[e].transcriptionText))]
  /\ proc' = [proc EXCEPT ![e] =
                Finally([@ EXCEPT !.posted = Append(@, proc[e].transcriptionText)])]
  /\ UNCHANGED <<tmpFiles, tmpDirs, runs>>

\* lines 140-143, client.chat.postMessage rejected
PostFail(e) ==
  /\ proc[e].pc = "post"
  /\ proc' = [proc EXCEPT ![e] = Catch(@, "postMessage")]
  /\ UNCHANGED <<tmpFiles, tmpDirs, slack, runs>>

\* ------------------------------------------------------------------------
\* cleanupFiles, lines 156-167
\* ------------------------------------------------------------------------
\* the existence test of line 158 with its result inverted
AccessFileInverted(e) ==
  /\ proc[e].pc = "access_file"
  /\ proc' = [proc EXCEPT ![e] =
       IF tmpFiles[Path(e)] = Absent
       THEN [@ EXCEPT !.pc = "unlink"]
       ELSE IF proc[e].outputDir # NULL THEN [@ EXCEPT !.pc = "access_dir"]
       ELSE [@ EXCEPT !.pc = IF proc[e].error = NoError THEN "returned" ELSE "thrown",
                      !.rejection = proc[e].error, !.endFile = TRUE,
                      !.endDir = tmpDirs[Dir(e)].exists]]
  /\ UNCHANGED <<tmpFiles, tmpDirs, slack, runs>>

\* line 158: tempFilePath && await fsp.access(tempFilePath)...; when the file
\* is not there, line 161 follows
AccessFile(e) ==
  /\ proc[e].pc = "access_file"
  /\ proc' = [proc EXCEPT ![e] =
       IF tmpFiles[Path(e)] # Absent
       THEN [@ EXCEPT !.pc = "unlink"]
       ELSE ToDirCheck(@, tmpFiles, tmpDirs, Path(e), Dir(e))]
  /\ UNCHANGED <<tmpFiles, tmpDirs, slack, runs>>

\* line 159, fsp.unlink resolved; line 161 follows
UnlinkOk(e) ==
  /\ proc[e].pc = "unlink"
  /\ tmpFiles[Path(e)] # Absent
  /\ tmpFiles' = [tmpFiles EXCEPT ![Path(e)] = Absent]
  /\ proc' = [proc EXCEPT ![e] = ToDirCheck(@, tmpFiles', tmpDirs, Path(e), Dir(e))]
  /\ UNCHANGED <<tmpDirs, slack, runs>>

\* line 159, fsp.unlink rejected: control passes to the catch of line 164
UnlinkFail(e) ==
  /\ proc[e].pc = "unlink"
  /\ proc' = [proc EXCEPT ![e] =
                CleanupCatch(@, "unlink", tmpFiles, tmpDirs, Path(e), Dir(e))]
  /\ UNCHANGED <<tmpFiles, tmpDirs, slack, runs>>

\* line 161: await fsp.access(outputDir)...; cleanupFiles returns when the
\* directory is not there
AccessDir(e) ==
  /\ proc[e].pc = "access_dir"
  /\ proc' = [proc EXCEPT ![e] =
       IF tmpDirs[Dir(e)].exists
       THEN [@ EXCEPT !.pc = "rm", !.dirChecked = TRUE]
       ELSE Settle([@ EXCEPT !.dirChecked = TRUE], tmpFiles, tmpDirs, Path(e), Dir(e))]
  /\ UNCHANGED <<tmpFiles, tmpDirs, slack, runs>>

\* line 162, fsp.rm(outputDir, { recursive: true, force: true }) resolved
RmOk(e) ==
  /\ proc[e].pc = "rm"
  /\ tmpDirs' = [tmpDirs EXCEPT ![Dir(e)] = NoDir]
  /\ proc' = [proc EXCEPT ![e] = Settle(@, tmpFiles, tmpDirs', Path(e), Dir(e))]
  /\ UNCHANGED <<tmpFiles, slack, runs>>

\* line 162, fsp.rm rejected: control passes to the catch of line 164
RmFail(e) ==
  /\ proc[e].pc = "rm"
  /\ tmpDirs[Dir(e)].exists
  /\ proc' = [proc EXCEPT ![e] =
                CleanupCatch(@, "rm", tmpFiles, tmpDirs, Path(e), Dir(e))]
  /\ UNCHANGED <<tmpFiles, tmpDirs, slack, runs>>

\* ------------------------------------------------------------------------
\* The program
\* ------------------------------------------------------------------------
Next ==
  \E e \in Events :
    \/ AppMention(e)
    \/ SayRejected(e)
    \/ HandlerNext(e)
    \/ HandlerCatch(e)
    \/ HandlerCatchRejected(e)
    \/ DownloadOk(e)
    \/ DownloadFail(e)
    \/ StatOk(e)
    \/ StatFail(e)
    \/ MkdirOk(e)
    \/ MkdirFail(e)
    \/ FfprobeOk(e)
    \/ FfprobeFail(e)
    \/ FfmpegEnd(e)
    \/ FfmpegError(e)
    \/ ReaddirOk(e)
    \/ ReaddirFail(e)
    \/ SegmentOk(e)
    \/ SegmentFail(e)
    \/ DirectOk(e)
    \/ DirectFail(e)
    \/ PostOk(e)
    \/ PostFail(e)
    \/ AccessFile(e)
    \/ UnlinkOk(e)
    \/ UnlinkFail(e)
    \/ AccessDir(e)
    \/ RmOk(e)
    \/ RmFail(e)

Spec == Init /\ [][Next]_vars

\* a step of the run of processAudioFile of event e: one of its awaited calls,
\* or one of the callbacks of splitAudioFile, returns or fails
RunStep(e) ==
  \/ DownloadOk(e) \/ DownloadFail(e)
  \/ StatOk(e) \/ StatFail(e)
  \/ MkdirOk(e) \/ MkdirFail(e)
  \/ FfprobeOk(e) \/ FfprobeFail(e)
  \/ FfmpegEnd(e) \/ FfmpegError(e)
  \/ ReaddirOk(e) \/ ReaddirFail(e)
  \/ SegmentOk(e) \/ SegmentFail(e)
  \/ DirectOk(e) \/ DirectFail(e)
  \/ PostOk(e) \/ PostFail(e)
  \/ AccessFile(e)
  \/ UnlinkOk(e) \/ UnlinkFail(e)
  \/ AccessDir(e)
  \/ RmOk(e) \/ RmFail(e)

\* the program when every external call eventually returns or fails: the
\* event loop then runs the continuation of each pending await
LiveSpec == Spec /\ \A e \in Events : WF_vars(RunStep(e))

\* ------------------------------------------------------------------------
\* Properties
\* ------------------------------------------------------------------------
BodyPcs == {"download", "stat", "mkdir", "ffprobe", "ffmpeg", "readdir",
            "segment", "direct", "post"}
CleanupPcs == {"access_file", "unlink", "access_dir", "rm"}

\* the size limit of the transcription service, in bytes
LimitBytes == 26214400

\* C1: once a run has returned or thrown, neither its temp file nor its temp
\* directory exists on disk.
C1_NothingLeftAfterRun ==
  \A e \in Events :
    Settled(e) => ~proc[e].endFile /\ ~proc[e].endDir

\* C2: cleanupFiles is invoked exactly once in every run: not before the body
\* of the run has ended, once when it has ended normally or by a failure.
C2_CleanupExactlyOnce ==
  \A e \in Events :
    /\ proc[e].pc \in BodyPcs => proc[e].cleanupCalls = 0
    /\ proc[e].pc \in CleanupPcs \cup {"returned", "thrown"} => proc[e].cleanupCalls = 1

\* a run that returned and a run that threw, each after its teardown
C2_Witness ==
  \E e1, e2 \in Events :
    /\ proc[e1].pc = "returned" /\ proc[e1].cleanupCalls = 1
    /\ proc[e2].pc = "thrown" /\ proc[e2].cleanupCalls = 1
    /\ proc[e2].error = "transcribeAudio"

\* C3: a run whose measured size is at most 26,214,400 bytes never creates
\* the temp directory and never calls splitAudioFile, makes exactly one
\* transcribeAudio call, on the temp file, and posts that call's text.
C3_DirectPath ==
  \A e \in Events :
    (proc[e].size # Absent /\ proc[e].size <= LimitBytes) =>
      /\ proc[e].outputDir = NULL
      /\ proc[e].mkdirCalls = 0
      /\ proc[e].splitCalls = 0
      /\ proc[e].calls = IF proc[e].pc = "direct" THEN <<>>
                         ELSE <<Call(Path(e), proc[e].error = NoError
                                               \/ proc[e].error = "postMessage")>>
      /\ proc[e].posted \in {<<>>, <<(<<Text(Path(e))>>)>>}
      /\ proc[e].pc = "returned" => proc[e].posted # <<>>

\* a run on a file of exactly 26,214,400 bytes has posted and returned
C3_Witness ==
  \E e \in Events :
    /\ proc[e].pc = "returned"
    /\ proc[e].size = LimitBytes
    /\ proc[e].posted = <<(<<Text(Path(e))>>)>>

\* the index a segment file name carries
RECURSIVE Value(_)
Value(digits) ==
  IF digits = <<>> THEN 0
  ELSE 10 * Value(SubSeq(digits, 1, Len(digits) - 1)) + digits[Len(digits)]

IndexOrdered(segments) ==
  \A i, j \in 1..Len(segments) :
    i < j => Value(segments[i].digits) < Value(segments[j].digits)

\* the texts of the segments splitAudioFile returned, in that order
SegmentTexts(e) ==
  [i \in 1..Len(proc[e].segments) |->
     Text(PathJoin(proc[e].outputDir, proc[e].segments[i]))]

RECURSIVE JoinBySpace(_)
JoinBySpace(texts) ==
  IF Len(texts) <= 1 THEN texts
  ELSE <<Head(texts), Space>> \o JoinBySpace(Tail(texts))

RECURSIVE EachThenSpace(_)
EachThenSpace(texts) ==
  IF texts = <<>> THEN <<>>
  ELSE <<Head(texts), Space>> \o EachThenSpace(Tail(texts))

\* what C4 says of a successful run on an oversized file, but for the form of
\* the transcript
SplitPath(e) ==
  /\ proc[e].splitCalls = 1
  /\ Len(proc[e].calls) = Len(proc[e].segments)
  /\ \A i \in 1..Len(proc[e].calls) :
       proc[e].calls[i] = Call(PathJoin(proc[e].outputDir, proc[e].segments[i]), TRUE)
  /\ IndexOrdered(proc[e].segments)

\* C4 as stated: in a successful run on a file of more than 26,214,400
\* bytes, splitAudioFile is called once, there is one transcribeAudio call
\* per segment returned, and the transcript posted is the segment texts in
\* ascending index order joined by single spaces.
C4_JoinedBySingleSpaces ==
  \A e \in Events :
    (proc[e].pc = "returned" /\ proc[e].size > LimitBytes) =>
      /\ SplitPath(e)
      /\ proc[e].posted = <<JoinBySpace(SegmentTexts(e))>>

\* C4 as amended: ... and the transcript posted is the segment texts in
\* ascending index order, each followed by a single space, whatever the
\* order of the directory listing.
C4_EachFollowedBySpace ==
  \A e \in Events :
    (proc[e].pc = "returned" /\ proc[e].size > LimitBytes) =>
      /\ SplitPath(e)
      /\ proc[e].posted = <<EachThenSpace(SegmentTexts(e))>>

\* a successful run on an oversized file split into two segments or more
C4_Witness ==
  \E e \in Events :
    /\ proc[e].pc = "returned"
    /\ proc[e].size > LimitBytes
    /\ Len(proc[e].segments) >= 2
    /\ Len(proc[e].posted) = 1

\* C5: when the transcription of segment k fails, the run fails, nothing is
\* posted for it, and no segment after k is submitted.
C5_AllOrNothing ==
  \A e \in Events :
    \A k \in 1..Len(proc[e].calls) :
      ~proc[e].calls[k].ok =>
        /\ k = Len(proc[e].calls)
        /\ proc[e].error = "transcribeAudio"
        /\ proc[e].pc \in CleanupPcs \cup {"thrown"}
        /\ proc[e].pc = "thrown" => proc[e].rejection = "transcribeAudio"
        /\ proc[e].posted = <<>>

\* one run has thrown after its first segment failed, a second segment left
\* unsubmitted; another has thrown after its second segment failed, the text
\* of the first already appended
C5_Witness ==
  \E e1, e2 \in Events :
    /\ proc[e1].pc = "thrown"
    /\ Len(proc[e1].segments) = 2
    /\ proc[e1].calls = <<Call(PathJoin(proc[e1].outputDir, proc[e1].segments[1]), FALSE)>>
    /\ proc[e2].pc = "thrown"
    /\ Len(proc[e2].calls) = 2
    /\ proc[e2].calls[1].ok /\ ~proc[e2].calls[2].ok
    /\ proc[e2].transcriptionText # <<>>

\* what C6 says of a run whose download failed, but for the temp file
FetchFailure(e) ==
  /\ proc[e].outputDir = NULL
  /\ proc[e].mkdirCalls = 0
  /\ proc[e].splitCalls = 0
  /\ proc[e].calls = <<>>
  /\ proc[e].posted = <<>>
  /\ proc[e].pc \in CleanupPcs \cup {"thrown"}
  /\ proc[e].pc = "thrown" => proc[e].rejection = "downloadFile"

\* C6 as stated: when downloadFile fails the run throws the download error,
\* never creates the temp directory, makes no split and no transcription
\* call, and the temp file does not exist once the run has ended.
C6_FetchFailureLeavesNoFile ==
  \A e \in Events :
    proc[e].error = "downloadFile" =>
      /\ FetchFailure(e)
      /\ proc[e].pc = "thrown" => ~proc[e].endFile

\* C6 as amended: ... and the temp file does not exist once the run has
\* ended unless its removal failed.
C6_FetchFailureFileRemovedUnlessUnlinkFails ==
  \A e \in Events :
    proc[e].error = "downloadFile" =>
      /\ FetchFailure(e)
      /\ (proc[e].pc = "thrown" /\ proc[e].endFile) => proc[e].cleanupError = "unlink"

\* a run whose download failed has thrown and its temp file is gone
C6_Witness ==
  \E e \in Events :
    /\ proc[e].pc = "thrown"
    /\ proc[e].error = "downloadFile"
    /\ ~proc[e].endFile
    /\ tmpFiles[Path(e)] = Absent

\* C7: teardown never raises and never masks: a run rejects with the error
\* of its failed stage and with nothing else, also when a removal failed.
C7_TeardownNeverMasks ==
  \A e \in Events :
    Settled(e) =>
      /\ proc[e].rejection = proc[e].error
      /\ (proc[e].pc = "thrown") <=> (proc[e].error # NoError)

\* a removal failed in a run whose stage failed and in a run that succeeded
C7_Witness ==
  \E e1, e2 \in Events :
    /\ proc[e1].pc = "thrown" /\ proc[e1].error = "transcribeAudio"
    /\ proc[e1].cleanupError # NoError
    /\ proc[e2].pc = "returned" /\ proc[e2].cleanupError # NoError

\* C8: teardown treats the temp file and the temp directory independently:
\* when a run that allocated a temp directory has ended, the existence of
\* the directory has been checked, whatever became of the temp file.
C8_DirectoryHandledWhateverTheFile ==
  \A e \in Events :
    (Settled(e) /\ proc[e].outputDir # NULL) => proc[e].dirChecked

\* C9: two runs that are active at the same time never have the same temp
\* file path or the same temp directory path.
C9_NoSharedWorkspace ==
  \A e1, e2 \in Events :
    (e1 # e2 /\ Running(e1) /\ Running(e2)) =>
      /\ Path(e1) # Path(e2)
      /\ Dir(e1) # Dir(e2)

\* C10: when splitAudioFile resolves with no segment, the run fails with a
\* split error: nothing is transcribed and nothing is posted.
C10_ZeroSegmentsFail ==
  \A e \in Events :
    (proc[e].splitResult = "resolved" /\ proc[e].segments = <<>>) =>
      /\ proc[e].calls = <<>>
      /\ proc[e].posted = <<>>
      /\ proc[e].pc \in CleanupPcs \cup {"thrown"}
      /\ proc[e].error \in {"FFprobe failed", "FFmpeg failed",
                            "Failed to read output directory"}

\* the number of messages of a kind among the messages of a channel
Count(messages, kind) ==
  Cardinality({i \in 1..Len(messages) : messages[i].kind = kind})

\* what C11 says of the result message of a failed run: there is none
NoResultForFailedRun(e) ==
  /\ proc[e].error # NoError => proc[e].posted = <<>>
  /\ (proc[e].pc = "finished" /\ proc[e].runFailed) =>
       Count(slack[e], "result") = proc[e].index - 1

\* C11 as stated: when a run of an event with audio files fails, exactly
\* one failure notice is posted for the event and no result message is
\* posted for the failed run.
C11_ExactlyOneFailureNotice ==
  \A e \in Events :
    /\ NoResultForFailedRun(e)
    /\ (proc[e].pc = "finished" /\ proc[e].runFailed) =>
         Count(slack[e], "failure") = 1

\* C11 as amended: ... exactly one failure notice is posted for the event
\* unless the posting of the notice is itself rejected, and then none is.
C11_OneFailureNoticeUnlessRejected ==
  \A e \in Events :
    /\ NoResultForFailedRun(e)
    /\ (proc[e].pc = "finished" /\ proc[e].runFailed) =>
         Count(slack[e], "failure") = IF proc[e].noticeRejected THEN 0 ELSE 1

\* a handler has ended after its second run failed: one result, one notice
C11_Witness ==
  \E e \in Events :
    /\ proc[e].pc = "finished"
    /\ proc[e].runFailed /\ ~proc[e].noticeRejected
    /\ proc[e].index = 2
    /\ Count(slack[e], "result") = 1
    /\ Count(slack[e], "failure") = 1

\* the errors the code builds itself, with a message that names the failed
\* operation (lines 60, 84 and 90); every other error is the one the callee
\* raised (axios, fs, the OpenAI and Slack clients), passed on as it came
WrappedErrors == {"FFprobe failed", "FFmpeg failed", "Failed to read output directory"}

\* the stage an error value names: the catch of lines 147-149 rethrows the
\* value it caught and adds nothing to it
StageTag(err) == IF err \in WrappedErrors THEN "Splitting" ELSE "untagged"

\* the segment an error value names: transcribeAudio (lines 98-104) has no
\* catch, and the loop of lines 129-133 adds nothing to what it raises
UnitTag(err) == NoName

\* the stage in which an error arose
StageOf(err) ==
  CASE err = "downloadFile" -> "Fetching"
    [] err = "stat" -> "SizeCheck"
    [] err \in WrappedErrors \cup {"mkdir"} -> "Splitting"
    [] err = "postMessage" -> "Aggregating"
    [] OTHER -> "Transcribing"

\* C12: the error a run rejects with is tagged with the stage in which it
\* arose, and the error of a segment transcription names the segment.
C12_ErrorsTaggedWithStage ==
  \A e \in Events :
    proc[e].pc = "thrown" =>
      /\ StageTag(proc[e].rejection) = StageOf(proc[e].rejection)
      /\ (proc[e].rejection = "transcribeAudio" /\ proc[e].outputDir # NULL) =>
           UnitTag(proc[e].rejection) = proc[e].segments[proc[e].next]

\* C13: while a run is active, its temp directory exists on disk exactly
\* when the run has taken the split path and created it (teardown, which
\* removes it, ends the run); it does not exist during the download, the
\* size check or a direct transcription.
C13_DirectoryIffSegmentation ==
  \A e \in Events :
    Running(e) => (tmpDirs[Dir(e)].exists <=> proc[e].splitCalls = 1)

\* the number of segments of a run that have been transcribed
Transcribed(e) ==
  Cardinality({i \in 1..Len(proc[e].calls) : proc[e].calls[i].ok})

\* C14: throughout the segment loop the transcript holds one fragment for
\* every segment transcribed so far, and these are the fragments of the
\* first segments of the sorted list, in the order of the list.
C14_LoopInvariant ==
  \A e \in Events :
    proc[e].splitResult = "resolved" =>
      /\ Transcribed(e) <= Len(proc[e].segments)
      /\ proc[e].transcriptionText =
           EachThenSpace(SubSeq(SegmentTexts(e), 1, Transcribed(e)))
      /\ \A i \in 1..Len(proc[e].calls) :
           /\ proc[e].calls[i].path = PathJoin(proc[e].outputDir, proc[e].segments[i])
           /\ proc[e].calls[i].ok <=> i <= Transcribed(e)
      /\ proc[e].pc = "segment" => proc[e].next = Transcribed(e) + 1

\* the loop is about to submit its second segment, the first one appended
C14_Witness ==
  \E e \in Events :
    /\ proc[e].pc = "segment"
    /\ proc[e].next = 2
    /\ proc[e].transcriptionText = <<SegmentTexts(e)[1], Space>>

\* the calls of transcribeAudio of a run that have not settled yet
InFlight(e) == proc[e].submitted - Len(proc[e].calls)

\* C15: within a run the size is measured only after the fetch has completed,
\* Split starts only after the size check, a segment is transcribed only
\* after Split has completed, and at most one call of the transcriber is in
\* flight, segment i+1 being submitted only after segment i has returned.
C15_StagesSequential ==
  \A e \in Events :
    /\ proc[e].size # Absent => proc[e].downloaded
    /\ proc[e].splitCalls > 0 => proc[e].size # Absent
    /\ (proc[e].submitted > 0 /\ proc[e].outputDir # NULL) =>
         proc[e].splitResult = "resolved"
    /\ InFlight(e) \in {0, 1}
    /\ InFlight(e) = 1 <=> proc[e].pc \in {"segment", "direct"}
    /\ proc[e].pc = "segment" =>
         /\ proc[e].submitted = proc[e].next
         /\ \A i \in 1..Len(proc[e].calls) : proc[e].calls[i].ok

\* the second segment has been submitted, the first one has returned
C15_Witness ==
  \E e \in Events :
    /\ proc[e].submitted = 2
    /\ Len(proc[e].calls) = 1
    /\ InFlight(e) = 1

\* the number of times the promise of splitAudioFile was resolved or rejected
Settlements(e) ==
  Cardinality({i \in 1..Len(proc[e].splitLog) :
                 proc[e].splitLog[i] \in {"resolve", "reject"}})

\* C16: Split probes before it encodes; when the probe fails ffmpeg is never
\* started and Split fails with the probe error; the result of Split is
\* settled exactly once, as a segment list or as an error, never both.
C16_ProbeBeforeEncode ==
  \A e \in Events :
    /\ \A i \in 1..Len(proc[e].splitLog) :
         proc[e].splitLog[i] = "ffmpeg" =>
           /\ i = 2
           /\ proc[e].splitLog[1] = "ffprobe"
    /\ proc[e].error = "FFprobe failed" =>
         /\ \A i \in 1..Len(proc[e].splitLog) : proc[e].splitLog[i] # "ffmpeg"
         /\ proc[e].splitResult = "rejected"
         /\ proc[e].pc = "thrown" => proc[e].rejection = "FFprobe failed"
    /\ Settlements(e) <= 1
    /\ Settlements(e) = 1 <=> proc[e].splitResult # "pending"
    /\ (proc[e].splitCalls = 1 /\ proc[e].pc \notin {"ffprobe", "ffmpeg", "readdir"}) =>
         Settlements(e) = 1
    /\ proc[e].splitResult = "rejected" =>
         proc[e].segments = <<>> /\ proc[e].error \in WrappedErrors
    /\ proc[e].splitResult = "resolved" => proc[e].error \notin WrappedErrors

\* a run has failed because the probe of its file failed
C16_Witness ==
  \E e \in Events :
    /\ proc[e].pc = "thrown"
    /\ proc[e].rejection = "FFprobe failed"
    /\ proc[e].splitLog = <<"ffprobe", "reject">>

\* the state of the pipeline a run is in; the teardown belongs to the
\* transition into Done or Failed
Stage(p) ==
  CASE p.pc = "download" -> "Fetching"
    [] p.pc = "stat" -> "SizeCheck"
    [] p.pc = "direct" -> "DirectTranscribe"
    [] p.pc \in {"mkdir", "ffprobe", "ffmpeg", "readdir"} -> "Splitting"
    [] p.pc = "segment" -> "SegmentLoop"
    [] p.pc = "post" -> "Aggregating"
    [] p.pc \in CleanupPcs \cup {"returned", "thrown"} ->
         IF p.error = NoError THEN "Done" ELSE "Failed"
    [] OTHER -> "Idle"

NonTerminal ==
  {"Fetching", "SizeCheck", "DirectTranscribe", "Splitting", "SegmentLoop", "Aggregating"}

Transitions ==
  {<<"Idle", "Fetching">>, <<"Fetching", "SizeCheck">>,
   <<"SizeCheck", "DirectTranscribe">>, <<"SizeCheck", "Splitting">>,
   <<"Splitting", "SegmentLoop">>, <<"SegmentLoop", "Aggregating">>,
   <<"DirectTranscribe", "Aggregating">>, <<"Aggregating", "Done">>}
  \cup {<<s, "Failed">> : s \in NonTerminal}

\* a step of event e keeps the stage of its run, follows a transition, passes
\* through a segment loop of no iteration, or is a step of the handler that
\* begins the run of the next file or ends the handler
StageStep(e) ==
  LET from == Stage(proc[e])
      to == Stage(proc'[e])
  IN \/ from = to
     \/ <<from, to>> \in Transitions
     \/ from = "Splitting" /\ to = "Aggregating" /\ proc'[e].segments = <<>>
     \/ from = "Done" /\ to \in {"Fetching", "Idle"}
     \/ from = "Failed" /\ to = "Idle"

\* C17: when every external call eventually returns or fails, every started
\* run eventually reaches Done or Failed, and a run moves only along Idle,
\* Fetching, SizeCheck, DirectTranscribe or Splitting and SegmentLoop,
\* Aggregating, Done, or from a state that is not terminal to Failed.
C17_RunsTerminate ==
  /\ \A e \in Events : Running(e) ~> Settled(e)
  /\ [][\A e \in Events : StageStep(e)]_vars

\* a run that split its file and went through the segment loop has reached Done
C17_Witness ==
  \E e \in Events :
    /\ proc[e].pc = "returned"
    /\ proc[e].splitResult = "resolved"
    /\ Len(proc[e].calls) = 2

\* C18: whatever runs on the same file id came before, every segment a run
\* transcribes is a segment file written by the Split of that run.
C18_OnlyOwnSegments ==
  \A e \in Events :
    proc[e].splitResult = "resolved" =>
      \A i \in 1..Len(proc[e].calls) :
        \E k \in proc[e].own :
          proc[e].calls[i].path = PathJoin(proc[e].outputDir, SegmentName(k))

\* the result messages of an event, in the order posted
Results(e) == SelectSeq(slack[e], LAMBDA m : m.kind = "result")

\* the result messages of an event are those of the first audio files of its
\* list, in list order: all before the current file, and the current one once
\* posted; after a failure at file i, exactly those before i
ResultsInListOrder(e) ==
  /\ \A j \in 1..Len(Results(e)) : Results(e)[j].id = proc[e].audioFiles[j].id
  /\ (Running(e) \/ Settled(e)) =>
       Len(Results(e)) = proc[e].index - 1 + Len(proc[e].posted)
  /\ proc[e].pc = "finished" =>
       Len(Results(e)) = IF proc[e].runFailed THEN proc[e].index - 1
                         ELSE Len(proc[e].audioFiles)

\* a handler goes to the next file of its list only when the run before it,
\* teardown included, has returned, and to none once a run has failed
OneRunAtATime(e) ==
  /\ proc'[e].index # proc[e].index =>
       /\ proc[e].pc \in {"idle", "returned"}
       /\ proc'[e].index = proc[e].index + 1
       /\ proc'[e].pc = "download"
  /\ proc[e].pc = "thrown" =>
       /\ proc'[e].pc \in {"thrown", "finished"}
       /\ proc'[e].pc = "finished" => proc'[e].runFailed

\* C19 as stated: the audio files of an event are processed one at a time in
\* list order, each run with its teardown finishing before the next starts;
\* when the run of file i fails no later run is started, the results of the
\* files before i have been posted, and exactly one failure notice follows.
C19_SequentialExactlyOneNotice ==
  /\ [][\A e \in Events : OneRunAtATime(e)]_vars
  /\ [](\A e \in Events :
          /\ ResultsInListOrder(e)
          /\ (proc[e].pc = "finished" /\ proc[e].runFailed) =>
               /\ Count(slack[e], "failure") = 1
               /\ slack[e][Len(slack[e])].kind = "failure")

\* C19 as amended: ... and exactly one failure notice follows, unless the
\* posting of that notice is itself rejected, and then none is posted.
C19_SequentialOneNoticeUnlessRejected ==
  /\ [][\A e \in Events : OneRunAtATime(e)]_vars
  /\ [](\A e \in Events :
          /\ ResultsInListOrder(e)
          /\ (proc[e].pc = "finished" /\ proc[e].runFailed) =>
               IF proc[e].noticeRejected
               THEN Count(slack[e], "failure") = 0
               ELSE /\ Count(slack[e], "failure") = 1
                    /\ slack[e][Len(slack[e])].kind = "failure")

\* the run of the first of two audio files failed: the second was never
\* started, and the notice is the last message of the event
C19_Witness ==
  \E e \in Events :
    /\ proc[e].pc = "finished"
    /\ proc[e].runFailed /\ ~proc[e].noticeRejected
    /\ Len(proc[e].audioFiles) = 2
    /\ proc[e].index = 1
    /\ slack[e][Len(slack[e])].kind = "failure"

====
